---- MODULE Spec2Model ----
(***************************************************************************)
(* LocalMongoDbCollectionMirror (src/index.js): an in-memory mirror of a   *)
(* MongoDB collection, bootstrapped by one find({}) and kept current by a  *)
(* change stream.  The mirror object, its EventEmitter, the promises of    *)
(* close() and waitUntilReady() and the remote collection are the state;   *)
(* every handler of the class is one action.                               *)
(***************************************************************************)
EXTENDS Integers, Sequences, FiniteSets, TLC

(* ------------------------------ bounds --------------------------------- *)
\* change events delivered to changeHandler in one behaviour
MaxEvents == 2
\* close() calls in one behaviour
MaxCloses == 2
\* waitUntilReady() calls in one behaviour
MaxWaits == 1
\* writes committed in the source collection in one behaviour
MaxOps == 2
\* change events in one replayed sequence
MaxReplay == 3
\* the wall clock (seconds): where it starts, how far one step advances it,
\* and where it stops
StartTime == 100
TickStep == 20
MaxTime == 160

\* seconds the change stream's start is set back from Date.now()
Margin == 30

(* --------------------------- JavaScript values ------------------------- *)
\* the value of a field that was never assigned (this.invalid, this.closed,
\* this.changeStream, this.lastOpId) and of `this` in a plain function call
undefined == "undefined"
JsTrue == "true"
\* document-valued null / undefined (change.fullDocument)
NullDoc == [jstype |-> "null"]
UndefinedDoc == [jstype |-> "undefined"]

CollectionNoLongerValid == "COLLECTION_NO_LONGER_VALID"
MirrorClosed == "MIRROR_CLOSED"
NoSuchKey == "NO_SUCH_KEY"
\* calling a property that is not a function
TypeError == "TypeError"

Throw(code) == [type |-> "throw", value |-> code]
Return(value) == [type |-> "return", value |-> value]

(* ------------------------------ documents ------------------------------ *)
Iso == "1970-01-01T00:00:00.000Z"
\* _id values: two strings and a Date (BSON dates arrive as JS Date objects)
Ids == {[t |-> "string", v |-> "abc"], [t |-> "string", v |-> Iso],
        [t |-> "Date", v |-> Iso]}
Foos == {"bar", "bar2"}
Docs == [_id : Ids, foo : Foos]
\* the documents a collection holds when a mirror is constructed on it
SeedDocs == {d \in Docs : d.foo = "bar"}

\* JSON.stringify of an _id value: a string is quoted; a Date is replaced by
\* its toJSON() (the ISO string) and then quoted
JSONstringify(value) ==
    CASE value.t = "string" -> "\"" \o value.v \o "\""
      [] value.t = "Date" -> "\"" \o value.v \o "\""

cacheKey(doc) == JSONstringify(doc._id)

DocKeys == {JSONstringify(i) : i \in Ids}

\* sift(query): the queries used are {} and { foo: <value> }, a set of
\* <<field, value>> equalities
Queries == {{}} \cup {{<<"foo", f>>} : f \in Foos}
sift(query, value) == \A c \in query : value[c[1]] = c[2]

(* ------------------------ Map (this.cache) ----------------------------- *)
\* a Map is the sequence of its entries in insertion order
MapHas(m, k) == \E i \in 1..Len(m) : m[i].key = k
MapGet(m, k) == m[CHOOSE i \in 1..Len(m) : m[i].key = k].doc
MapSet(m, k, d) ==
    IF MapHas(m, k)
    THEN [i \in 1..Len(m) |-> IF m[i].key = k THEN [key |-> k, doc |-> d] ELSE m[i]]
    ELSE Append(m, [key |-> k, doc |-> d])
MapDelete(m, k) == SelectSeq(m, LAMBDA e : e.key # k)
MapValues(m) == [i \in 1..Len(m) |-> m[i].doc]
MapKeys(m) == {m[i].key : i \in 1..Len(m)}

(* ------------------------------ state ---------------------------------- *)
VARIABLES
    remote,       \* the documents of the remote collection
    boot,         \* collection.find({}).toArray(): "enumerating" (issued),
                  \* "read" (the server has read, the result is in flight),
                  \* "done" (the then-callback has run), "failed" (rejected)
    snapDocs,     \* the array toArray() resolves with
    cache,        \* this.cache
    changeStream, \* this.changeStream: undefined, or "ChangeStream"
    streamState,  \* the change stream itself: "none", "open", "closed"
    feedStart,    \* startAtOperationTime (seconds) given to watch()
    invalid,      \* this.invalid
    closed,       \* this.closed
    lastOpId,     \* this.lastOpId
    emitted,      \* what mirror.emit() has emitted, in order
    waits,        \* the promises of the waitUntilReady() calls
    closes,       \* the promises of the close() calls
    calls,        \* the requests made to the remote collection / stream
    held,         \* keys whose cached object the caller still references
    last,         \* the find/get/has/waitUntilReady call just made and its outcome
    nEvents,      \* change events delivered so far
    lastObs,      \* history: per cache key, the last applied observation
    nInvalidate,  \* history: invalidate events processed
    now,          \* wall clock, seconds
    issueTime,    \* clock when the constructor issued find({})
    readTime,     \* clock when the server read the collection
    readPos,      \* oplog entries committed when the server read it
    oplog,        \* the source's committed changes, in commit order
    feedPos       \* oplog entries the change stream has passed

vars == <<remote, boot, snapDocs, cache, changeStream, streamState, feedStart,
          invalid, closed, lastOpId, emitted, waits, closes, calls, held, last,
          nEvents, lastObs, nInvalidate, now, issueTime, readTime, readPos,
          oplog, feedPos>>

srcVars == <<remote, now, issueTime, readTime, readPos, oplog, feedPos>>

\* the mirror and what its handlers act on, as one record
Cur == [cache |-> cache, changeStream |-> changeStream,
        streamState |-> streamState, feedStart |-> feedStart,
        invalid |-> invalid, closed |-> closed, lastOpId |-> lastOpId,
        emitted |-> emitted, waits |-> waits, closes |-> closes,
        calls |-> calls, held |-> held]

Put(w) ==
    /\ cache' = w.cache
    /\ changeStream' = w.changeStream
    /\ streamState' = w.streamState
    /\ feedStart' = w.feedStart
    /\ invalid' = w.invalid
    /\ closed' = w.closed
    /\ lastOpId' = w.lastOpId
    /\ emitted' = w.emitted
    /\ waits' = w.waits
    /\ closes' = w.closes
    /\ calls' = w.calls
    /\ held' = w.held

(* --------------------------- the class --------------------------------- *)
\* JS truthiness of a field
Truthy(v) == v # undefined

isValid(w) == ~Truthy(w.invalid)
\* isReady() that does not look at this.closed
isReady_IgnoresClosed(w) == Truthy(w.changeStream) /\ ~Truthy(w.invalid)
isReady(w) == Truthy(w.changeStream) /\ ~Truthy(w.invalid) /\ ~Truthy(w.closed)
isClosed(w) == w.closed

\* closeStream(stream) of close(): stream.close() is requested; the promise
\* of that close() call now waits for the stream
closeStream(w, i) ==
    [w EXCEPT !.closes[i] = "closing", !.calls = Append(@, "stream.close")]

RECURSIVE RunCloseListeners(_, _)
RunCloseListeners(w, i) ==
    IF i > Len(w.closes) THEN w
    ELSE RunCloseListeners(IF w.closes[i] = "onReady" THEN closeStream(w, i) ELSE w,
                           i + 1)

\* the 'ready' listeners close() has registered: closeStream, for a close()
\* call made before the stream existed
ReadyListeners(w) ==
    {"closeStream" : i \in {j \in 1..Len(w.closes) : w.closes[j] = "onReady"}}

\* EventEmitter.emit: the emission is observable; the 'ready' listeners are
\* those of pending waitUntilReady() calls (resolve) and of close() calls
\* made before the stream existed (closeStream)
Emit(w, eventName, args) ==
    LET logged == [w EXCEPT !.emitted =
                      Append(@, [name |-> eventName, args |-> args,
                                 isValid |-> isValid(w), isReady |-> isReady(w),
                                 listeners |-> IF eventName = "ready"
                                               THEN ReadyListeners(w)
                                               ELSE {}])]
    IN  IF eventName = "ready"
        THEN RunCloseListeners(
                 [logged EXCEPT !.waits =
                     [i \in DOMAIN @ |-> IF @[i] = "pending" THEN "resolved" ELSE @[i]]],
                 1)
        ELSE logged

\* doEmit without its validity check
doEmit_Always(w, eventName, args) == Emit(w, eventName, args)

doEmit(w, eventName, args) ==
    IF isValid(w) THEN Emit(w, eventName, args) ELSE w

\* assertState with the two checks in the other order
assertState_ClosedFirst(w) ==
    IF Truthy(w.closed) THEN Throw(MirrorClosed)
    ELSE IF Truthy(w.invalid) THEN Throw(CollectionNoLongerValid)
    ELSE Return(undefined)

assertState(w) ==
    IF Truthy(w.invalid) THEN Throw(CollectionNoLongerValid)
    ELSE IF Truthy(w.closed) THEN Throw(MirrorClosed)
    ELSE Return(undefined)

\* setCachedValue that does not overwrite an entry it already holds
setCachedValue_KeepExisting(keyDoc, doc, w) ==
    LET docKey == cacheKey(keyDoc)
        stored == IF doc # NullDoc /\ doc # UndefinedDoc
                  THEN IF MapHas(w.cache, docKey) THEN w
                       ELSE [w EXCEPT !.cache = MapSet(@, docKey, doc)]
                  ELSE [w EXCEPT !.cache = MapDelete(@, docKey),
                                 !.held = @ \ {docKey}]
    IN  doEmit(stored, "changed", <<undefined, docKey>>)

\* setCachedValue over a list of entries: a document is appended without
\* looking for an entry of its key
setCachedValue_Append(keyDoc, doc, w) ==
    LET docKey == cacheKey(keyDoc)
        stored == IF doc # NullDoc /\ doc # UndefinedDoc
                  THEN [w EXCEPT !.cache = Append(@, [key |-> docKey, doc |-> doc]),
                                 !.held = @ \ {docKey}]
                  ELSE [w EXCEPT !.cache = MapDelete(@, docKey),
                                 !.held = @ \ {docKey}]
    IN  doEmit(stored, "changed", <<undefined, docKey>>)

setCachedValue(keyDoc, doc, w) ==
    LET docKey == cacheKey(keyDoc)
        stored == IF doc # NullDoc /\ doc # UndefinedDoc
                  THEN [w EXCEPT !.cache = MapSet(@, docKey, doc),
                                 !.held = @ \ {docKey}]
                  ELSE [w EXCEPT !.cache = MapDelete(@, docKey),
                                 !.held = @ \ {docKey}]
    IN  doEmit(stored, "changed", <<undefined, docKey>>)

buildChangeStream(w, startAtOperationTime) ==
    [w EXCEPT !.calls = Append(@, "watch"),
              !.streamState = "open",
              !.feedStart = startAtOperationTime,
              !.changeStream = "ChangeStream"]

RECURSIVE LoadDocs(_, _, _)
LoadDocs(w, docs, i) ==
    IF i > Len(docs) THEN w
    ELSE LoadDocs(setCachedValue(docs[i], docs[i], w), docs, i + 1)

\* a then-callback that emits 'ready' before it opens the change stream
ConstructorThen_ReadyFirst(w, docs, dateNowSeconds) ==
    buildChangeStream(doEmit(LoadDocs(w, docs, 1), "ready", <<"mirror">>),
                      dateNowSeconds - Margin)

\* the then-callback of the constructor
ConstructorThen(w, docs, dateNowSeconds) ==
    doEmit(buildChangeStream(LoadDocs(w, docs, 1), dateNowSeconds - Margin),
           "ready", <<"mirror">>)

\* changeHandler that sets this.invalid before it emits 'invalidated'
changeHandler_FlagFirst(w, change) ==
    LET w1 == [w EXCEPT !.lastOpId = change._id]
    IN  CASE change.operationType \in {"delete", "insert", "replace", "update"} ->
                 setCachedValue(change.documentKey, change.fullDocument, w1)
          [] change.operationType = "invalidate" ->
                 doEmit([w1 EXCEPT !.invalid = JsTrue], "invalidated",
                        <<"mirror", change>>)
          [] OTHER -> w1

changeHandler(w, change) ==
    LET w1 == [w EXCEPT !.lastOpId = change._id]
    IN  CASE change.operationType \in {"delete", "insert", "replace", "update"} ->
                 setCachedValue(change.documentKey, change.fullDocument, w1)
          [] change.operationType = "invalidate" ->
                 [doEmit(w1, "invalidated", <<"mirror", change>>)
                     EXCEPT !.invalid = JsTrue]
          [] OTHER -> w1

find(w, query) ==
    IF assertState(w).type = "throw" THEN assertState(w)
    ELSE Return(SelectSeq(MapValues(w.cache), LAMBDA value : sift(query, value)))

\* get that returns undefined for a missing key instead of throwing
get_NoThrow(w, key) ==
    LET docKey == JSONstringify(key)
    IN  IF ~MapHas(w.cache, docKey) THEN Return(UndefinedDoc)
        ELSE Return(MapGet(w.cache, docKey))

get(w, key) ==
    LET docKey == JSONstringify(key)
    IN  IF ~MapHas(w.cache, docKey) THEN Throw(NoSuchKey)
        ELSE Return(MapGet(w.cache, docKey))

\* close() that rejects when close() was called before
close_OnlyOnce(w) ==
    IF w.closes # <<>> THEN [w EXCEPT !.closes = Append(@, "rejected")]
    ELSE IF Truthy(w.changeStream)
    THEN closeStream([w EXCEPT !.closes = Append(@, "onReady")], Len(w.closes) + 1)
    ELSE [w EXCEPT !.closes = Append(@, "onReady")]

\* close() that does not wait for 'ready': without a stream it resolves at
\* once and marks the mirror closed
close_NoDefer(w) ==
    IF Truthy(w.changeStream)
    THEN closeStream([w EXCEPT !.closes = Append(@, "onReady")], Len(w.closes) + 1)
    ELSE [w EXCEPT !.closes = Append(@, "resolved"), !.closed = JsTrue]

\* close(): the executor of the promise
close(w) ==
    LET w1 == [w EXCEPT !.closes = Append(@, "onReady")]
    IN  IF Truthy(w.changeStream) THEN closeStream(w1, Len(w1.closes)) ELSE w1

\* a resolution that toggles this.closed instead of setting it
closeThen_Toggle(w, i) ==
    [w EXCEPT !.closes[i] = "resolved", !.streamState = "closed",
              !.closed = IF Truthy(w.closed) THEN undefined ELSE JsTrue]

\* stream.close() has resolved for close() call i: resolve, and then
\* this.closed = true
closeThen(w, i) ==
    [w EXCEPT !.closes[i] = "resolved", !.streamState = "closed",
              !.closed = JsTrue]

\* waitUntilReady() that waits for 'ready' whenever isReady() is false
waitUntilReady_UntilIsReady(w) ==
    [w EXCEPT !.waits = Append(@, IF ~isReady(w) THEN "pending" ELSE "resolved")]

waitUntilReady(w) ==
    [w EXCEPT !.waits = Append(@, IF ~Truthy(w.changeStream) THEN "pending"
                                  ELSE "resolved")]

\* the class defines no has(): mirror.has is undefined, and calling it throws
has(w, key) == Throw(TypeError)

(* ------------------------------ actions -------------------------------- *)
\* history values: what the source last said about a key
Absent == [obs |-> "absent"]
Never == [obs |-> "never"]
NoCall == [op |-> "none"]

Perms(S) == {s \in [1..Cardinality(S) -> S] :
                \A i, j \in 1..Cardinality(S) : i # j => s[i] # s[j]}

Init ==
    /\ remote \in {S \in SUBSET SeedDocs : \A d, e \in S : d._id = e._id => d = e}
    /\ boot = "enumerating"
    /\ snapDocs = <<>>
    /\ cache = <<>>
    /\ changeStream = undefined
    /\ streamState = "none"
    /\ feedStart = 0
    /\ invalid = undefined
    /\ closed = undefined
    /\ lastOpId = undefined
    /\ emitted = <<>>
    /\ waits = <<>>
    /\ closes = <<>>
    /\ calls = <<"find">>
    /\ held = {}
    /\ last = NoCall
    /\ nEvents = 0
    /\ lastObs = [k \in DocKeys |-> Never]
    /\ nInvalidate = 0
    /\ now = StartTime
    /\ issueTime = StartTime
    /\ readTime = 0
    /\ readPos = 0
    /\ oplog = <<>>
    /\ feedPos = 0

mirrorVars == <<cache, changeStream, streamState, feedStart, invalid, closed,
                lastOpId, emitted, waits, closes, calls, held>>

\* the server evaluates find({}) and sends the array back
SnapshotRead ==
    /\ boot = "enumerating"
    /\ \E docs \in Perms(remote) : snapDocs' = docs
    /\ boot' = "read"
    /\ readTime' = now
    /\ readPos' = Len(oplog)
    /\ last' = NoCall
    /\ UNCHANGED <<mirrorVars, nEvents, lastObs, nInvalidate, remote, now,
                   issueTime, oplog, feedPos>>

RECURSIVE ObserveDocs(_, _, _)
ObserveDocs(obs, docs, i) ==
    IF i > Len(docs) THEN obs
    ELSE ObserveDocs([obs EXCEPT ![cacheKey(docs[i])] = docs[i]], docs, i + 1)

\* toArray() resolves: the then-callback of the constructor runs
SnapshotDone ==
    /\ boot = "read"
    /\ Put(ConstructorThen(Cur, snapDocs, now))
    /\ boot' = "done"
    /\ lastObs' = ObserveDocs(lastObs, snapDocs, 1)
    /\ last' = NoCall
    /\ UNCHANGED <<snapDocs, nEvents, nInvalidate, srcVars>>

\* toArray() rejects: the promise chain has no rejection handler
SnapshotFail ==
    /\ boot \in {"enumerating", "read"}
    /\ boot' = "failed"
    /\ last' = NoCall
    /\ UNCHANGED <<snapDocs, mirrorVars, nEvents, lastObs, nInvalidate, srcVars>>

\* the change events a change stream opened with fullDocument: 'updateLookup'
\* delivers: a delete carries no document, an insert/replace/update carries
\* the document or null (looked up after it was deleted), an invalidate or
\* a drop carries neither key nor document
Changes ==
    {[operationType |-> op, documentKey |-> [_id |-> d._id], fullDocument |-> d] :
        op \in {"insert", "replace", "update"}, d \in Docs}
    \cup {[operationType |-> op, documentKey |-> [_id |-> i], fullDocument |-> NullDoc] :
        op \in {"insert", "replace", "update"}, i \in Ids}
    \cup {[operationType |-> "delete", documentKey |-> [_id |-> i],
           fullDocument |-> UndefinedDoc] : i \in Ids}
    \cup {[operationType |-> op, documentKey |-> UndefinedDoc,
           fullDocument |-> UndefinedDoc] : op \in {"invalidate", "drop"}}

Observe(obs, change) ==
    IF change.operationType \in {"delete", "insert", "replace", "update"}
    THEN [obs EXCEPT ![cacheKey(change.documentKey)] =
             IF change.operationType = "delete" \/ change.fullDocument = NullDoc
             THEN Absent ELSE change.fullDocument]
    ELSE obs

Deliver(c) ==
    LET change == [_id |-> nEvents + 1, operationType |-> c.operationType,
                   documentKey |-> c.documentKey, fullDocument |-> c.fullDocument]
    IN  /\ Put(changeHandler(Cur, change))
        /\ nEvents' = nEvents + 1
        /\ lastObs' = Observe(lastObs, change)
        /\ nInvalidate' = nInvalidate + (IF c.operationType = "invalidate" THEN 1 ELSE 0)
        /\ last' = NoCall

\* the stream (or, as in the tests, a direct call) hands a change to
\* changeHandler; this also covers changes still in flight after stream.close()
ChangeEventFrom(S) ==
    /\ Truthy(changeStream)
    /\ nEvents < MaxEvents
    /\ \E c \in S : Deliver(c)
    /\ UNCHANGED <<boot, snapDocs, srcVars>>

ChangeEvent == ChangeEventFrom(Changes)

\* the changes that move the lifecycle: the collection is invalidated, one
\* document is written, one is deleted
LifeChanges ==
    {c \in Changes :
        \/ c.operationType = "invalidate"
        \/ /\ c.operationType \in {"update", "delete"}
           /\ c.documentKey._id.v = "abc"
           /\ c.fullDocument \in {UndefinedDoc, [_id |-> c.documentKey._id, foo |-> "bar2"]}}

LifeChangeEvent == ChangeEventFrom(LifeChanges)

queryFrame == <<boot, snapDocs, mirrorVars, nEvents, lastObs, nInvalidate, srcVars>>

CallFind ==
    /\ \E query \in Queries :
          last' = [op |-> "find", arg |-> query, out |-> find(Cur, query)]
    /\ UNCHANGED queryFrame

CallGet ==
    /\ \E key \in Ids :
          last' = [op |-> "get", arg |-> key, out |-> get(Cur, key)]
    /\ UNCHANGED queryFrame

CallHas ==
    /\ \E key \in Ids :
          last' = [op |-> "has", arg |-> key, out |-> has(Cur, key)]
    /\ UNCHANGED queryFrame

CallClose ==
    /\ Len(closes) < MaxCloses
    /\ Put(close(Cur))
    /\ last' = NoCall
    /\ UNCHANGED <<boot, snapDocs, nEvents, lastObs, nInvalidate, srcVars>>

\* the stream reports that it has closed
StreamClosed ==
    /\ \E i \in 1..Len(closes) :
          /\ closes[i] = "closing"
          /\ Put(closeThen(Cur, i))
          /\ last' = NoCall
    /\ UNCHANGED <<boot, snapDocs, nEvents, lastObs, nInvalidate, srcVars>>

CallWaitUntilReady ==
    /\ Len(waits) < MaxWaits
    /\ Put(waitUntilReady(Cur))
    /\ last' = [op |-> "waitUntilReady", arg |-> <<>>,
                out |-> waitUntilReady(Cur).waits[Len(waits) + 1]]
    /\ UNCHANGED <<boot, snapDocs, nEvents, lastObs, nInvalidate, srcVars>>

(* ---- the caller keeps and modifies what find() and get() returned ----- *)
\* the cache keys of the objects a call returned
ReturnedKeys(call) ==
    IF call.op \notin {"find", "get"} \/ call.out.type # "return" THEN {}
    ELSE IF call.op = "get" THEN {cacheKey(call.out.value)}
    ELSE {cacheKey(call.out.value[i]) : i \in 1..Len(call.out.value)}

KeepResult ==
    /\ ReturnedKeys(last) # {}
    /\ held' = held \cup ReturnedKeys(last)
    /\ last' = NoCall
    /\ UNCHANGED <<boot, snapDocs, cache, changeStream, streamState, feedStart,
                   invalid, closed, lastOpId, emitted, waits, closes, calls,
                   nEvents, lastObs, nInvalidate, srcVars>>

\* doc.foo = f on a returned document: the array find() builds and the value
\* get() returns hold the very objects the Map holds
CallerMutate ==
    /\ \E k \in held, f \in Foos :
          /\ MapGet(cache, k).foo # f
          /\ cache' = MapSet(cache, k, [MapGet(cache, k) EXCEPT !.foo = f])
    /\ last' = NoCall
    /\ UNCHANGED <<boot, snapDocs, changeStream, streamState, feedStart,
                   invalid, closed, lastOpId, emitted, waits, closes, calls, held,
                   nEvents, lastObs, nInvalidate, srcVars>>

(* ------------------- the source collection and its feed ---------------- *)
Tick ==
    /\ now + TickStep <= MaxTime
    /\ now' = now + TickStep
    /\ last' = NoCall
    /\ UNCHANGED <<boot, snapDocs, mirrorVars, nEvents, lastObs, nInvalidate,
                   remote, issueTime, readTime, readPos, oplog, feedPos>>

OplogEntry(op, id, doc) ==
    [ts |-> now, operationType |-> op, documentKey |-> [_id |-> id],
     fullDocument |-> doc]

\* the documents other clients write while the mirror runs
WrittenDocs == {d \in Docs : d._id.v = "abc"}

\* another client writes to the collection; the write is committed at `now`
SrcWrite ==
    /\ Cardinality({i \in 1..Len(oplog) : oplog[i].operationType # "invalidate"}) < MaxOps
    /\ \/ \E d \in WrittenDocs :
             /\ \A e \in remote : e._id # d._id
             /\ remote' = remote \cup {d}
             /\ oplog' = Append(oplog, OplogEntry("insert", d._id, d))
       \/ \E e \in remote, d \in WrittenDocs :
             /\ d._id = e._id /\ d # e
             /\ remote' = (remote \ {e}) \cup {d}
             /\ \/ oplog' = Append(oplog, OplogEntry("update", d._id, UndefinedDoc))
                \/ oplog' = Append(oplog, OplogEntry("replace", d._id, d))
       \/ \E e \in remote \cap WrittenDocs :
             /\ remote' = remote \ {e}
             /\ oplog' = Append(oplog, OplogEntry("delete", e._id, UndefinedDoc))
       \/ /\ remote' = {}
          /\ oplog' = oplog \o
                <<[ts |-> now, operationType |-> "drop",
                   documentKey |-> UndefinedDoc, fullDocument |-> UndefinedDoc],
                  [ts |-> now, operationType |-> "invalidate",
                   documentKey |-> UndefinedDoc, fullDocument |-> UndefinedDoc]>>
    /\ last' = NoCall
    /\ UNCHANGED <<boot, snapDocs, mirrorVars, nEvents, lastObs, nInvalidate,
                   now, issueTime, readTime, readPos, feedPos>>

\* fullDocument: 'updateLookup' (buildChangeStream): an update carries the
\* document as it is when the event is sent, null when it is gone by then
Lookup(id) ==
    IF \E d \in remote : d._id = id THEN CHOOSE d \in remote : d._id = id
    ELSE NullDoc

\* the stream delivers the next entry committed at or after
\* startAtOperationTime; it ends with the invalidate event
FeedDeliver ==
    /\ streamState = "open"
    /\ nInvalidate = 0
    /\ \E i \in (feedPos + 1)..Len(oplog) :
          /\ oplog[i].ts >= feedStart
          /\ \A j \in (feedPos + 1)..(i - 1) : oplog[j].ts < feedStart
          /\ feedPos' = i
          /\ Deliver([operationType |-> oplog[i].operationType,
                      documentKey |-> oplog[i].documentKey,
                      fullDocument |-> IF oplog[i].operationType = "update"
                                       THEN Lookup(oplog[i].documentKey._id)
                                       ELSE oplog[i].fullDocument])
    /\ UNCHANGED <<boot, snapDocs, remote, now, issueTime, readTime, readPos, oplog>>

(* --------------------------- specifications ---------------------------- *)
\* the data path: bootstrap, change events, queries
Next ==
    \/ SnapshotRead
    \/ SnapshotDone
    \/ SnapshotFail
    \/ ChangeEvent
    \/ CallFind
    \/ CallGet
    \/ CallHas

Spec == Init /\ [][Next]_vars

\* the lifecycle: bootstrap, invalidation, close(), waitUntilReady(), queries
NextLife ==
    \/ SnapshotRead
    \/ SnapshotDone
    \/ SnapshotFail
    \/ LifeChangeEvent
    \/ CallClose
    \/ StreamClosed
    \/ CallWaitUntilReady
    \/ CallFind
    \/ CallGet

SpecLife == Init /\ [][NextLife]_vars

\* the lifecycle alone: bootstrap, change events, close() and waitUntilReady()
NextClose ==
    \/ SnapshotRead
    \/ SnapshotDone
    \/ SnapshotFail
    \/ LifeChangeEvent
    \/ CallClose
    \/ StreamClosed
    \/ CallWaitUntilReady

SpecClose == Init /\ [][NextClose]_vars

\* the bootstrap and the change events alone
NextApply ==
    \/ SnapshotRead
    \/ SnapshotDone
    \/ ChangeEvent

SpecApply == Init /\ [][NextApply]_vars

\* a caller that keeps and modifies returned documents
NextAlias ==
    \/ SnapshotRead
    \/ SnapshotDone
    \/ LifeChangeEvent
    \/ CallFind
    \/ CallGet
    \/ KeepResult
    \/ CallerMutate

SpecAlias == Init /\ [][NextAlias]_vars

\* the mirror beside a source collection that is written to while the
\* clock advances
NextSrc ==
    \/ SnapshotRead
    \/ SnapshotDone
    \/ Tick
    \/ SrcWrite
    \/ FeedDeliver

SpecSrc == Init /\ [][NextSrc]_vars

(* ------------------------------- claims -------------------------------- *)
Range(seq) == {seq[i] : i \in 1..Len(seq)}
Emitted(eventName) == {i \in 1..Len(emitted) : emitted[i].name = eventName}

\* C1: with no source change, once waitUntilReady() has resolved (and before
\* any change event is applied) find({}) on the open mirror returns exactly
\* the documents the remote collection held at construction: none missing,
\* none extra, none twice.
C1_FindReturnsSnapshot ==
    (/\ last.op = "find" /\ last.arg = {}
     /\ \E i \in 1..Len(waits) : waits[i] = "resolved"
     /\ nEvents = 0 /\ ~Truthy(closed))
    => /\ last.out.type = "return"
       /\ Range(last.out.value) = remote
       /\ Len(last.out.value) = Cardinality(remote)

\* C2: after any sequence of snapshot rows and change events, every cache key
\* holds the document of the last applied observation of that key, and is
\* absent iff the key was never observed or its last applied observation was
\* a delete or a null document; other kinds of events change nothing.
C2_LastAppliedWins ==
    \A k \in DocKeys :
        /\ MapHas(cache, k) <=> lastObs[k] \notin {Never, Absent}
        /\ MapHas(cache, k) => MapGet(cache, k) = lastObs[k]
        /\ Cardinality({i \in 1..Len(cache) : cache[i].key = k}) <= 1

C2_Witness ==
    /\ nEvents = 2
    /\ \E k \in DocKeys : lastObs[k] = Absent /\ ~MapHas(cache, k)
    /\ \E k \in DocKeys : MapHas(cache, k) /\ MapGet(cache, k).foo = "bar2"

\* C3: the change stream starts no later than the moment the constructor
\* issued find({}) and no later than the snapshot's read, so every change
\* committed after the snapshot read is at or after the stream's start.
C3_FeedCoversSnapshot ==
    Truthy(changeStream) =>
        \A i \in (readPos + 1)..Len(oplog) : oplog[i].ts >= feedStart

\* C4: 'invalidated' is emitted exactly once if an invalidate event has been
\* processed and never otherwise; isValid() is true while it is emitted and
\* this.invalid is set by the end of the same step.
C4_InvalidatedOnce ==
    /\ Cardinality(Emitted("invalidated")) = (IF nInvalidate >= 1 THEN 1 ELSE 0)
    /\ \A i \in Emitted("invalidated") : emitted[i].isValid
    /\ Truthy(invalid) <=> nInvalidate >= 1

C4_Witness ==
    /\ nInvalidate = 2
    /\ Cardinality(Emitted("invalidated")) = 1
    /\ Truthy(invalid)

\* C5: once this.invalid is set, no step emits anything.
C5_NoEmitOnceInvalid ==
    [][Truthy(invalid) => emitted' = emitted]_vars

\* a change event was handled after the invalidate event, and nothing was
\* emitted for it
C5_Witness ==
    /\ Truthy(invalid)
    /\ emitted[Len(emitted)].name = "invalidated"
    /\ emitted[Len(emitted)].args[2]._id < lastOpId
    /\ lastObs # [k \in DocKeys |-> Never]

\* C6: find throws CollectionNoLongerValid when the mirror is invalid (closed
\* or not), MirrorClosed when it is closed and valid, and otherwise returns
\* exactly the cached documents that match the query.
C6_FindGated ==
    last.op = "find" =>
        /\ Truthy(invalid) =>
              last.out.type = "throw" /\ last.out.value = CollectionNoLongerValid
        /\ (~Truthy(invalid) /\ Truthy(closed)) =>
              last.out.type = "throw" /\ last.out.value = MirrorClosed
        /\ (~Truthy(invalid) /\ ~Truthy(closed)) =>
              /\ last.out.type = "return"
              /\ Range(last.out.value) =
                    {d \in Range(MapValues(cache)) : sift(last.arg, d)}
              /\ Len(last.out.value) = Cardinality(Range(last.out.value))

C6_Witness ==
    /\ last.op = "find"
    /\ Truthy(invalid) /\ Truthy(closed)
    /\ last.out.type = "throw" /\ last.out.value = CollectionNoLongerValid

\* C7: get throws CollectionNoLongerValid once the mirror is invalid and
\* MirrorClosed once a valid mirror is closed.
C7_GetGated ==
    last.op = "get" =>
        /\ Truthy(invalid) =>
              last.out.type = "throw" /\ last.out.value = CollectionNoLongerValid
        /\ (~Truthy(invalid) /\ Truthy(closed)) =>
              last.out.type = "throw" /\ last.out.value = MirrorClosed

\* C8: whatever a caller does to the documents find/get returned, a later
\* get returns the document as the source last sent it.
C8_ReturnsUnmodified ==
    (last.op = "get" /\ last.out.type = "return") =>
        last.out.value = lastObs[JSONstringify(last.arg)]

\* C9: has(key) never throws and returns true iff the key is in the cache.
C9_HasIsPresence ==
    last.op = "has" =>
        /\ last.out.type = "return"
        /\ last.out.value = MapHas(cache, JSONstringify(last.arg))

\* C10: on a valid, open mirror get(key) returns the cached document iff the
\* key is in the cache and throws NoSuchKey otherwise, so also for a key
\* never observed or last observed deleted; it makes no remote request.
C10_GetOrNoSuchKey ==
    (last.op = "get" /\ ~Truthy(invalid) /\ ~Truthy(closed)) =>
        LET k == JSONstringify(last.arg)
        IN  /\ MapHas(cache, k) =>
                  last.out.type = "return" /\ last.out.value = MapGet(cache, k)
            /\ ~MapHas(cache, k) =>
                  last.out.type = "throw" /\ last.out.value = NoSuchKey
            /\ lastObs[k] \in {Never, Absent} =>
                  last.out.type = "throw" /\ last.out.value = NoSuchKey
            /\ calls \in {<<"find">>, <<"find", "watch">>}

C10_Witness ==
    /\ last.op = "get" /\ ~Truthy(invalid) /\ ~Truthy(closed)
    /\ lastObs[JSONstringify(last.arg)] = Absent
    /\ last.out.type = "throw" /\ last.out.value = NoSuchKey
    /\ cache # <<>>

\* the part of C1 the code meets: the same statement for collections in
\* which no two documents serialize to the same cache key
C1_HoldsForDistinctKeys ==
    (\A d, e \in remote : cacheKey(d) = cacheKey(e) => d = e)
    => C1_FindReturnsSnapshot


\* the 'ready' emissions of the log
ReadyEmissions == {emitted[i] : i \in Emitted("ready")}

\* C11: a close() requested before the bootstrap has completed stays pending,
\* and isClosed() is not true, for as long as the bootstrap has not completed;
\* when it completes 'ready' is still emitted, the pending waitUntilReady()
\* calls resume and the release of the stream is requested; the close()
\* resolves, and isClosed() becomes true, only once the stream is released,
\* and isReady() is false from then on.
C11_CloseDeferredUntilReady ==
    /\ boot # "done" =>
          /\ \A i \in 1..Len(closes) : closes[i] = "onReady"
          /\ isClosed(Cur) # JsTrue
          /\ "stream.close" \notin Range(calls)
    /\ boot = "done" =>
          /\ Cardinality(Emitted("ready")) = 1
          /\ \A i \in 1..Len(waits) : waits[i] = "resolved"
          /\ \A i \in 1..Len(closes) : closes[i] \in {"closing", "resolved"}
          /\ closes # <<>> => "stream.close" \in Range(calls)
    /\ \A i \in 1..Len(closes) :
          closes[i] = "resolved" =>
              /\ streamState = "closed"
              /\ isClosed(Cur) = JsTrue
              /\ ~isReady(Cur)
    /\ isClosed(Cur) = JsTrue => \E i \in 1..Len(closes) : closes[i] = "resolved"

\* a close() call was waiting for 'ready' when it was emitted, and has since
\* resolved; the waitUntilReady() call has resumed
C11_Witness ==
    /\ boot = "done"
    /\ \E e \in ReadyEmissions : "closeStream" \in e.listeners
    /\ closes # <<>> /\ closes[1] = "resolved"
    /\ waits = <<"resolved">>
    /\ isClosed(Cur) = JsTrue

C13_ReadyOnce ==
    /\ boot # "done" =>
          /\ ~isReady(Cur)
          /\ ~Truthy(changeStream)
          /\ Emitted("ready") = {}
          /\ \A i \in 1..Len(waits) : waits[i] = "pending"
          /\ find(Cur, {}) = Return(<<>>)
          /\ last.op = "find" => last.out = Return(<<>>)
    /\ boot = "done" =>
          /\ Truthy(changeStream)
          /\ Emitted("ready") = {Len(snapDocs) + 1}
          /\ \A i \in 1..Len(snapDocs) : emitted[i].name = "changed"
          /\ \A e \in ReadyEmissions : e.isReady /\ e.args = <<"mirror">>
          /\ Len(SelectSeq(calls, LAMBDA c : c = "watch")) = 1

\* 'ready' has been emitted after a snapshot of two documents, and a later
\* change event has been applied
C13_Witness ==
    /\ boot = "done"
    /\ Len(snapDocs) = 2
    /\ Emitted("ready") # {}
    /\ Emitted("changed") \ (1..Len(snapDocs)) # {}

\* C14: when the enumeration of the snapshot fails, the failure reaches the
\* consumer: every waitUntilReady() call, pending or made later, is rejected,
\* and the mirror is never ready.
C14_SnapshotFailureRejects ==
    boot = "failed" =>
        /\ \A i \in 1..Len(waits) : waits[i] = "rejected"
        /\ last.op = "waitUntilReady" => last.out = "rejected"
        /\ ~isReady(Cur)

\* the part of C14 that the code keeps: a mirror whose snapshot failed is
\* never ready and emits nothing
C14_NeverReadyAfterFailure ==
    boot = "failed" => ~isReady(Cur) /\ ~Truthy(changeStream) /\ emitted = <<>>

\* the stream has delivered every entry it holds: what is left of the oplog
\* was committed before startAtOperationTime
AllDelivered ==
    \A i \in (feedPos + 1)..Len(oplog) : oplog[i].ts < feedStart

\* C15: on a ready, valid, open mirror every write committed in the source
\* is reflected by the cache once its event is delivered, and once every
\* event of the feed has been delivered the cache holds exactly the
\* documents of the source collection.
C15_ConvergesWhenQuiescent ==
    (isReady(Cur) /\ AllDelivered) => Range(MapValues(cache)) = remote

\* the part of C15 that the code keeps: once every event of the feed has been
\* delivered, each key the feed has reported holds what the source holds
C15_DeliveredWritesReflected ==
    (isReady(Cur) /\ AllDelivered) =>
        \A i \in 1..Len(oplog) :
            (oplog[i].ts >= feedStart /\ oplog[i].operationType # "drop") =>
                LET k == cacheKey(oplog[i].documentKey)
                    d == Lookup(oplog[i].documentKey._id)
                IN  IF d = NullDoc THEN ~MapHas(cache, k)
                    ELSE MapHas(cache, k) /\ MapGet(cache, k) = d

\* what the two flags stand for: the mirror is valid iff no invalidate event
\* has been processed, and isClosed() is true iff some close() call has
\* resolved, which it does only after the stream was released
FlagsMeaning ==
    /\ isValid(Cur) <=> nInvalidate = 0
    /\ isClosed(Cur) \in {undefined, JsTrue}
    /\ isClosed(Cur) = JsTrue <=> \E i \in 1..Len(closes) : closes[i] = "resolved"
    /\ isClosed(Cur) = JsTrue => streamState = "closed"

\* C16: the invalid and closed flags are monotonic: once set, neither is
\* ever cleared, so each is set at most once; isValid() is true iff no
\* invalidate event has been processed, and isClosed() is true iff a close()
\* call has completed the release of the stream.
C16_FlagsMonotonic ==
    /\ []FlagsMeaning
    /\ [][/\ Truthy(invalid) => Truthy(invalid')
          /\ Truthy(closed) => Truthy(closed')]_vars

\* two invalidate events were processed and two close() calls resolved
C16_Witness ==
    /\ Truthy(invalid) /\ nInvalidate = 2
    /\ Truthy(closed) /\ closes = <<"resolved", "resolved">>

\* C17: isReady() is true iff the snapshot has been loaded and the change
\* stream opened, no invalidate event has been processed and no close() call
\* has resolved.
C17_IsReady ==
    isReady(Cur) <=>
        /\ boot = "done"
        /\ "watch" \in Range(calls)
        /\ nInvalidate = 0
        /\ \A i \in 1..Len(closes) : closes[i] # "resolved"

\* a valid mirror that had become ready has been closed: isReady() is false
C17_Witness ==
    /\ boot = "done"
    /\ nInvalidate = 0
    /\ \E i \in 1..Len(closes) : closes[i] = "resolved"
    /\ ~isReady(Cur)

\* every close() call is waiting for 'ready', waiting for the stream or
\* resolved, never failed; it has asked for the release of the stream as
\* soon as the stream exists and can resolve from then on; once one call
\* has resolved the mirror is closed, however many calls there were
ClosesWellFormed ==
    /\ \A i \in 1..Len(closes) :
          /\ closes[i] \in {"onReady", "closing", "resolved"}
          /\ closes[i] = "onReady" <=> ~Truthy(changeStream)
          /\ closes[i] = "closing" => ENABLED StreamClosed
          /\ closes[i] = "resolved" => streamState = "closed" /\ closed = JsTrue
    /\ Len(SelectSeq(calls, LAMBDA c : c = "stream.close")) =
          Len(SelectSeq(closes, LAMBDA c : c # "onReady"))

\* C18: close() is idempotent: a call made while an earlier one is pending
\* or after it has resolved does not fail, every call resolves once the
\* stream is released, and the calls change nothing but the closed flag,
\* which ends up set as after a single close().
C18_CloseIdempotent ==
    /\ []ClosesWellFormed
    /\ [][closes' # closes /\ boot' = boot =>
            /\ cache' = cache /\ invalid' = invalid /\ emitted' = emitted
            /\ changeStream' = changeStream /\ waits' = waits
            /\ closed' \in {closed, JsTrue}]_vars

\* two close() calls have resolved on a mirror that is still valid
C18_Witness ==
    /\ closes = <<"resolved", "resolved">>
    /\ closed = JsTrue
    /\ ~Truthy(invalid)

\* C19: every 'changed' emission of an applied change event carries the
\* mirror instance as its first argument and the key of the changed document
\* as its second; 'ready' carries the mirror instance; 'invalidated' carries
\* the mirror instance and the raw change event.
C19_EventArguments ==
    \A i \in 1..Len(emitted) :
        LET e == emitted[i]
        IN  /\ (e.name = "changed" /\ i > Len(snapDocs)) =>
                  /\ Len(e.args) = 2
                  /\ e.args[1] = "mirror"
                  /\ e.args[2] \in DocKeys
            /\ e.name = "ready" => e.args = <<"mirror">>
            /\ e.name = "invalidated" =>
                  /\ Len(e.args) = 2
                  /\ e.args[1] = "mirror"
                  /\ e.args[2].operationType = "invalidate"

\* the part of C19 that the code keeps: what the emissions do carry
C19_ArgumentsAsEmitted ==
    \A i \in 1..Len(emitted) :
        LET e == emitted[i]
        IN  /\ e.name = "changed" =>
                  /\ e.args[1] = undefined
                  /\ e.args[2] \in DocKeys
                  /\ e.isValid
            /\ e.name = "ready" => e.args = <<"mirror">>
            /\ e.name = "invalidated" =>
                  /\ e.args[1] = "mirror"
                  /\ e.args[2].operationType = "invalidate"
                  /\ e.args[2]._id = lastOpId \/ nEvents > e.args[2]._id

\* C20: once a close() call has resolved, no later delivery of a change
\* event, one already in flight when the stream was released included,
\* changes the cache.
C20_NoMutationAfterClose ==
    [][(\E i \in 1..Len(closes) : closes[i] = "resolved") => cache' = cache]_vars

\* the change events that carry a document key
DocChanges ==
    {c \in Changes : c.operationType \in {"delete", "insert", "replace", "update"}}

\* the events of a replayed sequence: per _id an insert, an update to another
\* document and a delete
ReplayEvents ==
    {c \in DocChanges :
        \/ c.operationType = "insert" /\ c.fullDocument \in Docs /\ c.fullDocument.foo = "bar"
        \/ c.operationType = "update" /\ c.fullDocument \in Docs /\ c.fullDocument.foo = "bar2"
        \/ c.operationType = "delete"}

ReplaySeqs == UNION {[1..n -> ReplayEvents] : n \in 1..MaxReplay}

\* the stream hands change c to changeHandler of mirror w
Apply(w, c) ==
    changeHandler(w, [_id |-> 0, operationType |-> c.operationType,
                      documentKey |-> c.documentKey, fullDocument |-> c.fullDocument])

\* the stream hands the changes seq[i], seq[i + 1], ... to changeHandler
RECURSIVE ApplyAll(_, _, _)
ApplyAll(w, seq, i) ==
    IF i > Len(seq) THEN w ELSE ApplyAll(Apply(w, seq[i]), seq, i + 1)

\* the cache as a store: its entries and their number, whatever the order in
\* which the Map iterates them
Store(w) == [entries |-> Range(w.cache), size |-> Len(w.cache)]

\* C21: applying a change event is idempotent on the cache store: on every
\* cache the mirror can hold, an insert/update/replace/delete event applied
\* twice in succession leaves the store that applying it once leaves; and
\* after a sequence of events applied to a cache the bootstrap left,
\* delivering a suffix of the sequence again, in order, leaves the store
\* unchanged.
C21_ApplyIdempotent ==
    /\ \A e \in DocChanges : Store(Apply(Apply(Cur, e), e)) = Store(Apply(Cur, e))
    /\ (boot = "done" /\ nEvents = 0) =>
          \A seq \in ReplaySeqs : \A k \in 1..Len(seq) :
              Store(ApplyAll(ApplyAll(Cur, seq, 1), seq, k)) = Store(ApplyAll(Cur, seq, 1))

\* a ready mirror holds two documents after two change events; some event
\* changes that store, and some replayed suffix passes through a store other
\* than the one it ends in
C21_Witness ==
    /\ boot = "done" /\ nEvents = 2 /\ Len(cache) = 2
    /\ \E e \in DocChanges : Store(Apply(Cur, e)) # Store(Cur)
    /\ \E seq \in ReplaySeqs : \E k \in 1..Len(seq) :
          Store(Apply(ApplyAll(Cur, seq, 1), seq[k])) # Store(ApplyAll(Cur, seq, 1))

\* the bootstrap emits one 'changed' per snapshot document, in snapshot
\* order and before the mirror is ready, then 'ready'; no change event is
\* applied and nothing is emitted before that
BootstrapOrder ==
    /\ boot # "done" => emitted = <<>> /\ nEvents = 0 /\ cache = <<>>
    /\ boot = "done" =>
          /\ Len(emitted) > Len(snapDocs)
          /\ \A i \in 1..Len(snapDocs) :
                /\ emitted[i].name = "changed"
                /\ emitted[i].args[2] = cacheKey(snapDocs[i])
                /\ ~emitted[i].isReady
          /\ emitted[Len(snapDocs) + 1].name = "ready"
          /\ emitted[Len(snapDocs) + 1].isReady
          /\ Truthy(changeStream)

\* C22: during the bootstrap one 'changed' is emitted per snapshot document
\* as it is inserted, all of them before 'ready'; 'ready' is emitted only
\* once the stream is set and the cache holds the whole snapshot, so that no
\* change event is applied before the snapshot is inserted and a 'ready'
\* listener sees the complete snapshot.
C22_ReadySeesWholeSnapshot ==
    /\ BootstrapOrder
    /\ (boot = "done" /\ nEvents = 0) =>
          /\ Range(MapValues(cache)) = Range(snapDocs)
          /\ Len(cache) = Len(snapDocs)

\* the part of C22 that the code keeps: the order of the emissions, and the
\* whole snapshot in the cache when its keys are distinct
C22_HoldsForDistinctKeys ==
    /\ BootstrapOrder
    /\ (/\ boot = "done" /\ nEvents = 0
        /\ \A i, j \in 1..Len(snapDocs) :
              cacheKey(snapDocs[i]) = cacheKey(snapDocs[j]) => i = j) =>
          /\ Range(MapValues(cache)) = Range(snapDocs)
          /\ Len(cache) = Len(snapDocs)

====
